---- MODULE Spec2Model ----
(***************************************************************************)
(* Model of the Spotify now-playing resolver (SpotifyAPI.ts): the token    *)
(* cache, the now-playing cache, the last played track and the             *)
(* getNowPlaying / getAccessToken handlers.  Concurrent getNowPlaying      *)
(* calls interleave at their awaits (one action per continuation); the     *)
(* upstream provider answers nondeterministically.  The GET handler of     *)
(* the route (route.ts) turns the outcome of a call into its response.     *)
(***************************************************************************)
EXTENDS Integers, Sequences, FiniteSets, TLC

\* ---------------------------------------------------------------- bounds
NumCalls == 2
MaxTicks == 2

\* ------------------------------------------------------- program constants
TOKEN_EXPIRY_BUFFER == 60 * 1000
NOW_PLAYING_TTL == 10000

\* The clock advances in steps of half a TTL, from a positive start.
TickMs == NOW_PLAYING_TTL \div 2
StartTime == 2 * TOKEN_EXPIRY_BUFFER

Calls == 1..NumCalls
Tokens == {"t1"}
ExpiresIn == {60, 65}
Titles == {"A", "C"}
ArtistLists == {<<>>, <<"B", "D">>}

\* ------------------------------------------------------------- JS values
\* null / undefined access tokens, and numbers that may be NaN.
NullToken == "null"
UndefinedToken == "undefined"
Truthy(s) == s \notin {NullToken, UndefinedToken, ""}

Num(n) == [nan |-> FALSE, v |-> n]
NaN == [nan |-> TRUE, v |-> 0]
\* Date.now() < x, false for NaN
NowBefore(t, x) == ~x.nan /\ t < x.v
\* a number's truthiness: neither 0 nor NaN
NumTruthy(x) == ~x.nan /\ x.v # 0

\* SpotifyNowPlaying | false | null
NullPayload == [kind |-> "null", artist |-> "", title |-> "", isPlaying |-> FALSE]
FalsePayload == [kind |-> "false", artist |-> "", title |-> "", isPlaying |-> FALSE]
Track(artist, title, isPlaying) ==
  [kind |-> "track", artist |-> artist, title |-> title, isPlaying |-> isPlaying]
IsTrack(p) == p.kind = "track"

\* ------------------------------------------------------ upstream answers
\* POST /api/token: network failure, a body that is no JSON, a provider
\* error body ({error: ...}: no access_token, no expires_in), or a grant.
TokenResponses ==
  {[kind |-> "neterr", access_token |-> UndefinedToken, expires_in |-> <<>>],
   [kind |-> "badjson", access_token |-> UndefinedToken, expires_in |-> <<>>],
   [kind |-> "error", access_token |-> UndefinedToken, expires_in |-> <<>>]}
  \cup [kind : {"ok"}, access_token : Tokens, expires_in : {<<e>> : e \in ExpiresIn}]

NoItem == [name |-> "", artists |-> <<>>]
Items == [name : Titles, artists : ArtistLists]

\* GET currently-playing: network failure, or a status with a body.
LiveResponses ==
  {[kind |-> "neterr", status |-> 0, hasItem |-> FALSE, item |-> NoItem, is_playing |-> FALSE]}
  \cup [kind : {"http"}, status : {204, 400, 401}, hasItem : {FALSE}, item : {NoItem},
        is_playing : {FALSE}]
  \cup [kind : {"http"}, status : {200}, hasItem : {FALSE}, item : {NoItem},
        is_playing : {FALSE}]
  \cup [kind : {"http"}, status : {200}, hasItem : {TRUE}, item : Items,
        is_playing : BOOLEAN]

\* GET recently-played?limit=1: network failure, or a status with a body
\* whose JSON may fail to parse and whose items hold track entries.
RecentResponses ==
  {[kind |-> "neterr", status |-> 0, jsonOk |-> FALSE, items |-> <<>>]}
  \cup [kind : {"http"}, status : {401}, jsonOk : {TRUE}, items : {<<>>}]
  \cup [kind : {"http"}, status : {200}, jsonOk : {FALSE}, items : {<<>>}]
  \cup [kind : {"http"}, status : {200}, jsonOk : {TRUE},
        items : {<<>>} \cup {<<i>> : i \in Items}]

\* What an answer is to the code that receives it (kind), with the track
\* entry and the is_playing flag of its body.
NoAnswer == [kind |-> "none", item |-> NoItem, is_playing |-> FALSE]

\* ------------------------------------------------------------------ state
VARIABLES
  now,              \* Date.now()
  tokenCache,       \* { access_token, expires_at }
  nowPlayingCache,  \* { payload, expires_at }
  lastPlayedTrack,  \* SpotifyNowPlaying | null
  calls,            \* the getNowPlaying calls in flight: position and locals
  last              \* history: the call that completed last, and what it did,
                    \* until a call in flight moves on

vars == <<now, tokenCache, nowPlayingCache, lastPlayedTrack, calls, last>>

\* A call: where it waits (pc), its forceRefresh option, when it started,
\* the status of its currently-playing response once received (0 before,
\* and for a fetch that failed) and the requests it has issued (token
\* exchanges, currently-playing and recently-played fetches, those still
\* unanswered).
IdleCall ==
  [pc |-> "idle", forced |-> FALSE, startAt |-> 0, status |-> 0,
   exch |-> 0, live |-> 0, recent |-> 0, inflight |-> 0]

\* No call has completed yet.
NoCall ==
  [branch |-> "none", forced |-> FALSE, startAt |-> 0,
   exch |-> 0, live |-> 0, recent |-> 0, inflight |-> 0, in |-> NoAnswer,
   outcome |-> "none", result |-> NullPayload, wrote |-> FALSE]

Init ==
  /\ now = StartTime
  /\ tokenCache = [access_token |-> NullToken, expires_at |-> Num(0)]
  /\ nowPlayingCache = [payload |-> NullPayload, expires_at |-> 0]
  /\ lastPlayedTrack = NullPayload
  /\ calls = [c \in Calls |-> IdleCall]
  /\ last = NoCall

\* ------------------------------------------------------------- operators
\* the cached token is taken for valid only once it has expired
TokenValid_Reversed(tc, t) ==
  Truthy(tc.access_token) /\ NumTruthy(tc.expires_at) /\ ~NowBefore(t, tc.expires_at)

\* getAccessToken's cache check (lines 46-50)
TokenValid(tc, t) ==
  Truthy(tc.access_token) /\ NumTruthy(tc.expires_at) /\ NowBefore(t, tc.expires_at)

\* data.expires_in * 1000 (undefined * 1000 is NaN)
ExpiresInMs(e) == IF e = <<>> THEN NaN ELSE Num(e[1] * 1000)

\* the expiry of the token without the buffer taken off
TokenExpiry_NoBuffer(t, e) ==
  IF ExpiresInMs(e).nan THEN NaN ELSE Num(t + ExpiresInMs(e).v)

\* Date.now() + data.expires_in * 1000 - TOKEN_EXPIRY_BUFFER
TokenExpiry(t, e) ==
  IF ExpiresInMs(e).nan THEN NaN ELSE Num(t + ExpiresInMs(e).v - TOKEN_EXPIRY_BUFFER)

\* the token of the body stored next to the expiry of the empty cache
StoreToken_Torn(data, t) == [access_token |-> data.access_token, expires_at |-> Num(0)]

\* the token cache written from the exchange's JSON body (lines 75-78)
StoreToken(data, t) ==
  [access_token |-> data.access_token, expires_at |-> TokenExpiry(t, data.expires_in)]

\* the freshness comparison the wrong way round
CacheFresh_Reversed(cache, t) == cache.payload.kind # "null" /\ cache.expires_at < t

\* the cache still counts as fresh at the instant of its expiry
CacheFresh_Inclusive(cache, t) == cache.payload.kind # "null" /\ t <= cache.expires_at

\* getNowPlaying's cache check, without the forceRefresh test (lines 129-130)
CacheFresh(cache, t) == cache.payload.kind # "null" /\ t < cache.expires_at

\* forceRefresh is not looked at
UseCache_IgnoresForce(forceRefresh, cache, t) == CacheFresh(cache, t)

\* whether getNowPlaying returns from the cache (lines 127-131)
UseCache(forceRefresh, cache, t) == ~forceRefresh /\ CacheFresh(cache, t)

\* the cache written with no TTL added
WriteCache_NoTTL(payload, t) == [payload |-> payload, expires_at |-> t]

\* { payload, expires_at: Date.now() + NOW_PLAYING_TTL }
WriteCache(payload, t) == [payload |-> payload, expires_at |-> t + NOW_PLAYING_TTL]

\* the last played track handed out as it is stored
Stale_AsStored(track) == track

\* { ...lastPlayedTrack, isPlaying: false }
Stale(track) == [track EXCEPT !.isPlaying = FALSE]

\* the artist taken from the end of the artist list
RecentPayload_LastArtist(item) ==
  Track(item.artists[Len(item.artists)], item.name, FALSE)

\* a recently-played item reported as playing
RecentPayload_Playing(item) == Track(Head(item.artists), item.name, TRUE)

\* the payload of a recently-played item (lines 144-149)
RecentPayload(item) == Track(Head(item.artists), item.name, FALSE)

\* the payload of a currently-playing body (lines 189-198)
LivePayload(song) == Track(Head(song.item.artists), song.item.name, song.is_playing)

\* response.ok
ResponseOk(status) == status >= 200 /\ status <= 299

\* every request is sent twice
Issue_Twice(call, at) ==
  [call EXCEPT !.pc = at, !.inflight = @ + 2,
               !.exch = IF at \in {"token_live", "token_recent"} THEN @ + 2 ELSE @,
               !.live = IF at = "live" THEN @ + 2 ELSE @,
               !.recent = IF at = "recent" THEN @ + 2 ELSE @]

\* a request goes out: the call waits at `at` for its answer
Issue(call, at) ==
  [call EXCEPT !.pc = at, !.inflight = @ + 1,
               !.exch = IF at \in {"token_live", "token_recent"} THEN @ + 1 ELSE @,
               !.live = IF at = "live" THEN @ + 1 ELSE @,
               !.recent = IF at = "recent" THEN @ + 1 ELSE @]

\* an answer arrives
Receive(call) == [call EXCEPT !.inflight = @ - 1]

\* getAccessToken called on the way to the fetch `for`: a valid cached token
\* goes straight to the fetch, otherwise the exchange is posted (lines 44-68)
getAccessToken(call, for, tc, t) ==
  IF TokenValid(tc, t)
  THEN Issue(call, for)
  ELSE Issue(call, IF for = "live" THEN "token_live" ELSE "token_recent")

\* the record of a call that has returned or thrown: its return path
\* (branch), the answer that ended it (in), what it issued, and its result
Done(call, in, outcome, result, branch, wrote) ==
  [branch |-> branch, forced |-> call.forced, startAt |-> call.startAt,
   exch |-> call.exch, live |-> call.live, recent |-> call.recent,
   inflight |-> call.inflight, in |-> in,
   outcome |-> outcome, result |-> result, wrote |-> wrote]

\* ------------------------------------------------------- return paths
\* return without touching the caches
Return(c, call, in, value, branch) ==
  /\ last' = Done(call, in, "value", value, branch, FALSE)
  /\ calls' = [calls EXCEPT ![c] = IdleCall]
  /\ UNCHANGED <<nowPlayingCache, lastPlayedTrack>>

\* an exception that takes the last played track with it
Throw_ClearsTrack(c, call, in, branch) ==
  /\ last' = Done(call, in, "error", NullPayload, branch, FALSE)
  /\ calls' = [calls EXCEPT ![c] = IdleCall]
  /\ lastPlayedTrack' = NullPayload
  /\ UNCHANGED nowPlayingCache

\* an exception leaves getNowPlaying
Throw(c, call, in, branch) ==
  /\ last' = Done(call, in, "error", NullPayload, branch, FALSE)
  /\ calls' = [calls EXCEPT ![c] = IdleCall]
  /\ UNCHANGED <<nowPlayingCache, lastPlayedTrack>>

\* the track is cached and returned, and lastPlayedTrack is left as it was
ReturnTrack_CacheOnly(c, call, in, payload, branch) ==
  /\ nowPlayingCache' = WriteCache(payload, now)
  /\ last' = Done(call, in, "value", payload, branch, TRUE)
  /\ calls' = [calls EXCEPT ![c] = IdleCall]
  /\ UNCHANGED lastPlayedTrack

\* lastPlayedTrack = payload; nowPlayingCache = {payload, ...}; return payload
\* (lines 151-159, 200-208)
ReturnTrack(c, call, in, payload, branch) ==
  /\ lastPlayedTrack' = payload
  /\ nowPlayingCache' = WriteCache(payload, now)
  /\ last' = Done(call, in, "value", payload, branch, TRUE)
  /\ calls' = [calls EXCEPT ![c] = IdleCall]

\* false is stored as the payload while the old expiry is kept
ReturnUnavailable_KeepsExpiry(c, call, in, branch) ==
  /\ nowPlayingCache' = [nowPlayingCache EXCEPT !.payload = FalsePayload]
  /\ last' = Done(call, in, "value", FalsePayload, branch, TRUE)
  /\ calls' = [calls EXCEPT ![c] = IdleCall]
  /\ UNCHANGED lastPlayedTrack

\* nowPlayingCache = {payload: false, ...}; return false (lines 170-174, 182-186)
ReturnUnavailable(c, call, in, branch) ==
  /\ nowPlayingCache' = WriteCache(FalsePayload, now)
  /\ last' = Done(call, in, "value", FalsePayload, branch, TRUE)
  /\ calls' = [calls EXCEPT ![c] = IdleCall]
  /\ UNCHANGED lastPlayedTrack

\* the catch block of the 204 branch, and what follows it (lines 162-174)
Catch(c, call, in) ==
  IF IsTrack(lastPlayedTrack)
  THEN Return(c, call, in, Stale(lastPlayedTrack), "catchStale")
  ELSE ReturnUnavailable(c, call, in, "catchUnavailable")

\* the error-status branch without its lastPlayedTrack test
ErrorStatus_NoFallback(c, call, in) ==
  ReturnUnavailable(c, call, in, "errorUnavailable")

\* the error-status branch going on to the recently-played fallback
ErrorStatus_Fallback(c, call, in) ==
  /\ calls' = [calls EXCEPT ![c] = getAccessToken(call, "recent", tokenCache, now)]
  /\ last' = NoCall
  /\ UNCHANGED <<nowPlayingCache, lastPlayedTrack>>

\* the error-status branch (lines 177-187)
ErrorStatus(c, call, in) ==
  IF IsTrack(lastPlayedTrack)
  THEN Return(c, call, in, Stale(lastPlayedTrack), "errorStale")
  ELSE ReturnUnavailable(c, call, in, "errorUnavailable")

\* the call goes on to its next await; `last` relates a completed call to
\* what follows it directly, and is forgotten once a call in flight moves
Continue(c, call) ==
  /\ calls' = [calls EXCEPT ![c] = call]
  /\ last' = NoCall
  /\ UNCHANGED <<nowPlayingCache, lastPlayedTrack>>

\* which answer a currently-playing response is to the code
LiveKind(resp) ==
  IF resp.kind = "neterr" THEN "live:neterr"
  ELSE IF resp.status = 204 THEN "live:204"
  ELSE IF resp.status > 400 THEN "live:error"
  ELSE IF ~resp.hasItem \/ resp.item.artists = <<>> THEN "live:malformed"
  ELSE "live:track"

\* which answer a recently-played response is to the code
RecentKind(resp) ==
  IF resp.kind = "neterr" THEN "recent:neterr"
  ELSE IF ~ResponseOk(resp.status) THEN "recent:notok"
  ELSE IF ~resp.jsonOk THEN "recent:badjson"
  ELSE IF resp.items = <<>> THEN "recent:empty"
  ELSE IF Head(resp.items).artists = <<>> THEN "recent:noartist"
  ELSE "recent:track"

TokenAnswer(resp) == [NoAnswer EXCEPT !.kind = "token:" \o resp.kind]

\* (the body is kept only of an answer the code reads a track from)
LiveAnswer(resp) ==
  IF LiveKind(resp) = "live:track"
  THEN [kind |-> "live:track", item |-> resp.item, is_playing |-> resp.is_playing]
  ELSE [NoAnswer EXCEPT !.kind = LiveKind(resp)]

RecentAnswer(resp) ==
  IF RecentKind(resp) = "recent:track"
  THEN [kind |-> "recent:track", item |-> Head(resp.items), is_playing |-> FALSE]
  ELSE [NoAnswer EXCEPT !.kind = RecentKind(resp)]

\* ---------------------------------------------------------------- actions
\* getNowPlaying({forceRefresh}) up to its first await (lines 122-135, 44-68);
\* calls are anonymous: a new call takes the lowest free slot
Start(c, forceRefresh) ==
  /\ calls[c].pc = "idle"
  /\ \A d \in Calls : d < c => calls[d].pc # "idle"
  /\ LET call == [IdleCall EXCEPT !.forced = forceRefresh, !.startAt = now] IN
     IF UseCache(forceRefresh, nowPlayingCache, now)
     THEN Return(c, call, NoAnswer, nowPlayingCache.payload, "hit")
     ELSE Continue(c, getAccessToken(call, "live", tokenCache, now))
  /\ UNCHANGED <<now, tokenCache>>

\* the token exchange answers: getAccessToken's lines 58-80, then the fetch
\* it was called for; a failure inside the 204 branch's try is caught
TokenResponse(c, resp) ==
  /\ calls[c].pc \in {"token_live", "token_recent"}
  /\ LET call == Receive(calls[c])
         in == TokenAnswer(resp) IN
     IF resp.kind \in {"neterr", "badjson"}
     THEN /\ IF call.pc = "token_live"
             THEN Throw(c, call, in, "tokenThrow")
             ELSE Catch(c, call, in)
          /\ UNCHANGED tokenCache
     ELSE /\ tokenCache' = StoreToken(resp, now)
          /\ Continue(c, Issue(call, IF call.pc = "token_live" THEN "live" ELSE "recent"))
  /\ UNCHANGED now

\* the currently-playing fetch answers (lines 135-209)
LiveResponse(c, resp) ==
  /\ calls[c].pc = "live"
  /\ LET call == [Receive(calls[c]) EXCEPT !.status = resp.status]
         in == LiveAnswer(resp) IN
     IF resp.kind = "neterr"
     THEN Throw(c, call, in, "liveThrow")
     ELSE IF resp.status = 204
     THEN Continue(c, getAccessToken(call, "recent", tokenCache, now))
     ELSE IF resp.status > 400
     THEN ErrorStatus(c, call, in)
     ELSE IF ~resp.hasItem \/ resp.item.artists = <<>>
     THEN Throw(c, call, in, "parseThrow")
     ELSE ReturnTrack(c, call, in, LivePayload(resp), "live")
  /\ UNCHANGED <<now, tokenCache>>

\* the recently-played fetch answers (lines 140-174)
RecentResponse(c, resp) ==
  /\ calls[c].pc = "recent"
  /\ LET call == Receive(calls[c])
         in == RecentAnswer(resp) IN
     IF resp.kind = "neterr"
     THEN Catch(c, call, in)
     ELSE IF ~ResponseOk(resp.status)
     THEN ReturnUnavailable(c, call, in, "recentUnavailable")
     ELSE IF ~resp.jsonOk
     THEN Catch(c, call, in)
     ELSE IF resp.items = <<>>
     THEN ReturnUnavailable(c, call, in, "recentUnavailable")
     ELSE IF Head(resp.items).artists = <<>>
     THEN Catch(c, call, in)
     ELSE ReturnTrack(c, call, in, RecentPayload(Head(resp.items)), "recent")
  /\ UNCHANGED <<now, tokenCache>>

\* time passes
Tick ==
  /\ (now - StartTime) \div TickMs < MaxTicks
  /\ now' = now + TickMs
  /\ UNCHANGED <<tokenCache, nowPlayingCache, lastPlayedTrack, calls, last>>

Next ==
  \/ \E c \in Calls, f \in BOOLEAN : Start(c, f)
  \/ \E c \in Calls, r \in TokenResponses : TokenResponse(c, r)
  \/ \E c \in Calls, r \in LiveResponses : LiveResponse(c, r)
  \/ \E c \in Calls, r \in RecentResponses : RecentResponse(c, r)
  \/ Tick

Spec == Init /\ [][Next]_vars

\* ------------------------------------------------- the route (route.ts)
\* NextResponse.json(body, {status, headers}): the body is the resolver's
\* value (data), or {error: ...}; without a status the response is a 200
JsonResponse(status, data, error) ==
  [kind |-> "response", status |-> status, data |-> data, error |-> error]

\* the handler without its catch block: the resolver's exception leaves it
GET_NoCatch(resolved) ==
  IF resolved.outcome = "error"
  THEN [kind |-> "throw", status |-> 0, data |-> NullPayload, error |-> resolved.branch]
  ELSE JsonResponse(200, resolved.result, "")

\* GET(request), given how its getNowPlayingItem call ended (resolved): the
\* value as JSON, or the caught error, named here by where it was thrown,
\* as {error: `Failed to fetch ${error}`} with status 500 (lines 17-33)
GET(resolved) ==
  IF resolved.outcome = "error"
  THEN JsonResponse(500, NullPayload, "Failed to fetch " \o resolved.branch)
  ELSE JsonResponse(200, resolved.result, "")

\* ------------------------------------------------------------ step shapes
\* call c returns or throws after at least one await
Completes(c) == calls[c].pc # "idle" /\ calls'[c].pc = "idle"

\* a call starts and goes to the network
Begins(c) == calls[c].pc = "idle" /\ calls'[c].pc # "idle"

\* a call starts and returns at once from nowPlayingCache: the only step that
\* changes `last` and neither the calls in flight nor the clock
HitStep == calls' = calls /\ now' = now /\ last' # last

\* a call without forceRefresh starts
NonForcedStart == HitStep \/ \E c \in Calls : Begins(c) /\ ~calls'[c].forced

\* the step is a call that returns `value` from the cache, with no request
HitReturning(value) ==
  /\ HitStep
  /\ last'.branch = "hit" /\ last'.outcome = "value" /\ last'.result = value
  /\ last'.exch + last'.live + last'.recent = 0
  /\ UNCHANGED <<tokenCache, nowPlayingCache, lastPlayedTrack>>

Requests(call) == call.exch + call.live + call.recent

\* the call that completed last was a call, not forced, that issued its
\* currently-playing fetch and returned a value, and started less than a
\* TTL ago
FirstCallFetched ==
  /\ last.branch # "none" /\ ~last.forced
  /\ last.live = 1 /\ last.outcome = "value"
  /\ now < last.startAt + NOW_PLAYING_TTL

\* ----------------------------------------------------------------- claims
\* C1 (as stated): whatever the upstream answered, a call without
\* forceRefresh that starts less than a TTL after a first such call, which
\* fetched and returned, returns the cached value of the first call and
\* issues no request.
C1_SecondCallAlwaysHits ==
  [][(FirstCallFetched /\ NonForcedStart)
       => (HitReturning(nowPlayingCache.payload) /\ last.live + last'.live = 1)]_vars

\* C1 (amended): when the first call issued its currently-playing fetch and
\* wrote nowPlayingCache, a call without forceRefresh that starts less than
\* a TTL later returns that cached value and issues no request: one live
\* fetch over both calls.
C1_SecondCallHitsAfterWrite ==
  [][(FirstCallFetched /\ last.wrote /\ NonForcedStart)
       => (HitReturning(last.result) /\ last.live + last'.live = 1)]_vars

\* a call has returned a cached track, some time after it was cached
C1_Witness ==
  /\ last.branch = "hit" /\ IsTrack(last.result)
  /\ nowPlayingCache.payload = last.result
  /\ now > nowPlayingCache.expires_at - NOW_PLAYING_TTL
  /\ now < nowPlayingCache.expires_at

\* C2: with a track T resolved earlier (lastPlayedTrack = T), a call whose
\* currently-playing fetch fails with a network error returns T with
\* isPlaying = false, as a value.
C2_StaleOnLiveNetworkError ==
  [][\A c \in Calls :
       (Completes(c) /\ last'.in.kind = "live:neterr" /\ IsTrack(lastPlayedTrack))
         => (last'.outcome = "value" /\ last'.result = Stale(lastPlayedTrack))]_vars

\* C3: after a 204, when the recently-played fetch fails with a network
\* error or returns no item, the call returns lastPlayedTrack with
\* isPlaying = false and leaves nowPlayingCache alone if lastPlayedTrack
\* exists, and caches and returns unavailable only if it does not.
C3_FallbackFailureUsesLastPlayed ==
  [][\A c \in Calls :
       (Completes(c) /\ last'.in.kind \in {"recent:neterr", "recent:empty"})
         => IF IsTrack(lastPlayedTrack)
            THEN /\ last'.outcome = "value"
                 /\ last'.result = Stale(lastPlayedTrack)
                 /\ nowPlayingCache' = nowPlayingCache
            ELSE /\ last'.outcome = "value"
                 /\ last'.result = FalsePayload
                 /\ nowPlayingCache'.payload = FalsePayload]_vars

\* C4: a failed token exchange surfaces as an error to the caller of
\* getNowPlaying, and the token cache never holds an undefined token or an
\* expiry that is not a number.
C4_FailedExchangeSurfaces ==
  /\ tokenCache.access_token # UndefinedToken
  /\ ~tokenCache.expires_at.nan
  /\ last.in.kind \in {"token:neterr", "token:badjson"} => last.outcome = "error"

\* C5: a call that reaches getAccessToken while a token is cached and
\* now < tokenCache.expires_at posts no token exchange: it goes straight to
\* its fetch with the cached token, and the token cache stays as it is.
C5_TokenReuse ==
  [][\A c \in Calls :
       (/\ calls'[c].pc # calls[c].pc
        /\ calls[c].pc \in {"idle", "live"}
        /\ calls'[c].pc # "idle"
        /\ tokenCache.access_token \in Tokens
        /\ ~tokenCache.expires_at.nan
        /\ now < tokenCache.expires_at.v)
         => /\ calls'[c].exch = calls[c].exch
            /\ calls'[c].pc \in {"live", "recent"}
            /\ tokenCache' = tokenCache]_vars

\* a call has resolved a track over the network without any token exchange,
\* with the token of an earlier exchange, which is still valid
C5_Witness ==
  /\ last.live = 1 /\ last.exch = 0 /\ last.outcome = "value"
  /\ tokenCache.access_token \in Tokens
  /\ ~tokenCache.expires_at.nan
  /\ now < tokenCache.expires_at.v

\* C6 (as stated): a getNowPlaying call issues at most two outbound HTTP
\* calls in total.
C6_AtMostTwoRequests ==
  /\ \A c \in Calls : Requests(calls[c]) <= 2
  /\ Requests(last) <= 2

\* C6 (amended): a getNowPlaying call issues at most four outbound HTTP
\* calls, one at a time: at most one currently-playing fetch and one
\* recently-played fetch, each after at most one token exchange; a call in
\* flight waits for exactly one answer, a completed call for none.
C6_AtMostFourSequentialRequests ==
  /\ \A c \in Calls :
       /\ calls[c].live <= 1 /\ calls[c].recent <= 1 /\ calls[c].exch <= 2
       /\ calls[c].inflight = IF calls[c].pc = "idle" THEN 0 ELSE 1
       /\ calls[c].exch <= calls[c].live + calls[c].recent + calls[c].inflight
  /\ last.live <= 1 /\ last.recent <= 1 /\ last.exch <= 2
  /\ last.inflight = 0
  /\ Requests(last) <= 4

\* a call has completed after two token exchanges and both fetches
C6_Witness == Requests(last) = 4 /\ last.outcome = "value"

\* C7 (as stated): a completed call with forceRefresh has issued a
\* currently-playing fetch.
C7_ForcedAlwaysFetches == (last.branch # "none" /\ last.forced) => last.live = 1

\* C7 (amended): a call with forceRefresh never returns from
\* nowPlayingCache, whatever it holds: it goes to the network at once, and
\* it completes with its one currently-playing fetch issued unless the
\* token exchange it needed first failed, which it throws.  What it writes
\* to the cache is the value it returns, expiring a TTL later, and a call
\* without forceRefresh that follows before that expiry returns it from the
\* cache.
C7_ForcedBypassesAndFillsCache ==
  [][/\ HitStep => ~last'.forced
     /\ \A c \in Calls :
          /\ (Begins(c) /\ calls'[c].forced)
               => (calls'[c].pc \in {"token_live", "live"} /\ Requests(calls'[c]) = 1)
          /\ (Completes(c) /\ calls[c].forced)
               => /\ last'.forced /\ last'.branch # "hit"
                  /\ \/ last'.live = 1
                     \/ /\ last'.branch = "tokenThrow" /\ last'.outcome = "error"
                        /\ last'.exch = 1 /\ last'.live = 0
                  /\ last'.wrote =>
                       nowPlayingCache' = [payload |-> last'.result,
                                           expires_at |-> now + NOW_PLAYING_TTL]
     /\ (last.forced /\ last.wrote /\ now < nowPlayingCache.expires_at /\ NonForcedStart)
          => HitReturning(last.result)]_vars

\* a call with forceRefresh waits for its currently-playing fetch, having
\* started while the cache, written earlier, was still fresh
C7_Witness ==
  \E c \in Calls :
    /\ calls[c].forced /\ calls[c].pc = "live" /\ calls[c].startAt = now
    /\ nowPlayingCache.payload.kind # "null"
    /\ now < nowPlayingCache.expires_at
    /\ nowPlayingCache.expires_at < now + NOW_PLAYING_TTL

\* C8: on an error status (> 400) of the currently-playing fetch the call
\* returns lastPlayedTrack with isPlaying = false and leaves nowPlayingCache
\* and lastPlayedTrack as they are, if lastPlayedTrack exists; otherwise it
\* sets nowPlayingCache to unavailable, expiring a TTL later, and returns
\* unavailable.
C8_ErrorStatusPolicy ==
  [][\A c \in Calls :
       (Completes(c) /\ last'.in.kind = "live:error")
         => /\ last'.outcome = "value"
            /\ lastPlayedTrack' = lastPlayedTrack
            /\ IF lastPlayedTrack.kind = "track"
               THEN /\ last'.result = [lastPlayedTrack EXCEPT !.isPlaying = FALSE]
                    /\ nowPlayingCache' = nowPlayingCache
               ELSE /\ last'.result = FalsePayload
                    /\ nowPlayingCache' = [payload |-> FalsePayload,
                                           expires_at |-> now + NOW_PLAYING_TTL]]_vars

\* an error status has been answered with the last played track, which was
\* stored as playing, while the cache holds something else
C8_Witness ==
  /\ last.in.kind = "live:error" /\ last.branch = "errorStale"
  /\ lastPlayedTrack.kind = "track" /\ lastPlayedTrack.isPlaying
  /\ last.result = [lastPlayedTrack EXCEPT !.isPlaying = FALSE]
  /\ nowPlayingCache.payload = FalsePayload

\* C9: after a 204, a successful recently-played answer whose first item is
\* the track named A with first artist B makes the call return
\* {title: A, artist: B, isPlaying: false} and set lastPlayedTrack and
\* nowPlayingCache (expiring a TTL later) to that value.
C9_FallbackCorrect ==
  [][\A c \in Calls :
       (Completes(c) /\ last'.in.kind = "recent:track")
         => LET payload == [kind |-> "track", title |-> last'.in.item.name,
                            artist |-> last'.in.item.artists[1],
                            isPlaying |-> FALSE] IN
            /\ last'.outcome = "value" /\ last'.result = payload
            /\ last'.live = 1 /\ last'.recent = 1
            /\ lastPlayedTrack' = payload
            /\ nowPlayingCache' = [payload |-> payload,
                                   expires_at |-> now + NOW_PLAYING_TTL]]_vars

\* the recently-played track A of the artists B and D has been returned as
\* {title A, artist B}, by a call that took some time
C9_Witness ==
  /\ last.in.kind = "recent:track"
  /\ last.in.item = [name |-> "A", artists |-> <<"B", "D">>]
  /\ last.result = [kind |-> "track", title |-> "A", artist |-> "B", isPlaying |-> FALSE]
  /\ lastPlayedTrack = last.result /\ nowPlayingCache.payload = last.result
  /\ last.startAt < now

\* C10: with lastPlayedTrack absent, a 204 followed by an empty
\* recently-played list makes the call return unavailable and cache it,
\* expiring a TTL later; until that expiry every call without forceRefresh
\* returns unavailable from the cache and issues no request.
C10_ColdStartCached ==
  [][/\ \A c \in Calls :
          (Completes(c) /\ last'.in.kind = "recent:empty" /\ lastPlayedTrack.kind = "null")
            => /\ last'.outcome = "value" /\ last'.result = FalsePayload
               /\ nowPlayingCache' = [payload |-> FalsePayload,
                                      expires_at |-> now + NOW_PLAYING_TTL]
     /\ (/\ nowPlayingCache.payload = FalsePayload
         /\ now < nowPlayingCache.expires_at
         /\ NonForcedStart)
          => HitReturning(FalsePayload)]_vars

\* with no last played track, unavailable has been returned from the cache
\* some time after it was cached
C10_Witness ==
  /\ last.branch = "hit" /\ last.result = FalsePayload
  /\ lastPlayedTrack.kind = "null"
  /\ nowPlayingCache.payload = FalsePayload
  /\ now > nowPlayingCache.expires_at - NOW_PLAYING_TTL
  /\ now < nowPlayingCache.expires_at

\* C11 (as stated): once the clock has reached nowPlayingCache.expires_at,
\* a call without forceRefresh is never answered from the cache, and every
\* call without forceRefresh that went to the network (it started at or
\* after the expiry) completes with a currently-playing fetch issued.
C11_ExpiredAlwaysFetches ==
  [][/\ (now >= nowPlayingCache.expires_at /\ NonForcedStart) => ~HitStep
     /\ \A c \in Calls :
          (Completes(c) /\ ~calls[c].forced) => last'.live = 1]_vars

\* C11 (amended): once the clock has reached nowPlayingCache.expires_at, a
\* call without forceRefresh is never answered from the cache, whatever it
\* holds: it goes to the network at once (a token exchange or the
\* currently-playing fetch) and leaves the caches alone in that step.  A
\* call without forceRefresh goes to the network only at or after the
\* expiry, and it completes with its one currently-playing fetch issued
\* unless the token exchange it needed first failed, which it throws.
C11_ExpiredGoesUpstream ==
  [][/\ (now >= nowPlayingCache.expires_at /\ NonForcedStart)
          => /\ ~HitStep
             /\ \E c \in Calls :
                  /\ Begins(c) /\ ~calls'[c].forced
                  /\ calls'[c].pc \in {"token_live", "live"}
                  /\ Requests(calls'[c]) = 1
             /\ UNCHANGED <<tokenCache, nowPlayingCache, lastPlayedTrack>>
     /\ \A c \in Calls :
          /\ (Begins(c) /\ ~calls'[c].forced) => now >= nowPlayingCache.expires_at
          /\ (Completes(c) /\ ~calls[c].forced)
               => /\ last'.branch # "hit"
                  /\ \/ last'.live = 1
                     \/ /\ last'.branch = "tokenThrow" /\ last'.outcome = "error"
                        /\ last'.exch = 1 /\ last'.live = 0]_vars

\* a call without forceRefresh, started at the very instant at which the
\* cached track expired, waits for its currently-playing fetch
C11_Witness ==
  \E c \in Calls :
    /\ ~calls[c].forced /\ calls[c].pc = "live" /\ calls[c].startAt = now
    /\ IsTrack(nowPlayingCache.payload)
    /\ now = nowPlayingCache.expires_at

\* the readings of the clock: those of the model, and a clock at or before
\* the epoch
ClockValues == {-1, 0} \cup {StartTime + k * TickMs : k \in 0..MaxTicks}

\* C12: in every reachable state nowPlayingCache.payload is null exactly
\* when nowPlayingCache.expires_at is its initial 0, and a null payload
\* satisfies the freshness check at no reading of the clock; a payload
\* that is not null never becomes null again.
C12_CacheWrittenTogether ==
  /\ [](/\ nowPlayingCache.payload.kind = "null" <=> nowPlayingCache.expires_at = 0
        /\ nowPlayingCache.payload.kind = "null"
             => \A t \in ClockValues :
                  /\ ~CacheFresh(nowPlayingCache, t)
                  /\ ~UseCache(FALSE, nowPlayingCache, t))
  /\ [][nowPlayingCache.payload.kind # "null"
          => nowPlayingCache'.payload.kind # "null"]_vars

\* unavailable has been written over a cached track, after the track's
\* own expiry
C12_Witness ==
  /\ nowPlayingCache.payload = FalsePayload
  /\ IsTrack(lastPlayedTrack)
  /\ nowPlayingCache.expires_at > StartTime + NOW_PLAYING_TTL
  /\ last.branch = "recentUnavailable"

\* C13: however the getNowPlaying call of a GET request ended, the handler
\* returns a response and throws nothing: when the call returned, its value
\* (a track or false, never null) is the body and the status is not 500;
\* the status is 500 exactly when the call threw, and the body is then
\* {error: message}.
C13_RouteNeverThrows ==
  last.branch # "none" =>
    LET response == GET(last) IN
    /\ response.kind = "response"
    /\ last.outcome \in {"value", "error"}
    /\ last.outcome = "value"
         => /\ last.result.kind \in {"track", "false"}
            /\ response.data = last.result /\ response.error = ""
    /\ response.status = 500 <=> last.outcome = "error"
    /\ last.outcome = "error"
         => /\ response.data = NullPayload
            /\ response.error = "Failed to fetch " \o last.branch

\* a call has thrown on a 200 body without a track, with a last played
\* track at hand, and the route answers 500
C13_Witness ==
  /\ last.outcome = "error" /\ last.branch = "parseThrow"
  /\ IsTrack(lastPlayedTrack)
  /\ GET(last).status = 500

\* C14 (as stated): in every reachable state lastPlayedTrack, when present,
\* has isPlaying = false.
C14_StoredNotPlaying == IsTrack(lastPlayedTrack) => ~lastPlayedTrack.isPlaying

\* C14 (amended): lastPlayedTrack is stored as resolved: after a 200
\* currently-playing answer with the is_playing flag of that answer (true
\* when it reported true), after a recently-played answer with
\* isPlaying = false.  isPlaying is forced to false when lastPlayedTrack is
\* handed out: a call that falls back on it returns its title and artist
\* with isPlaying = false and leaves the stored value as it is.
C14_ForcedFalseOnReturn ==
  [][\A c \in Calls :
       Completes(c) =>
         /\ last'.in.kind = "live:track"
              => /\ IsTrack(lastPlayedTrack')
                 /\ lastPlayedTrack'.isPlaying = last'.in.is_playing
         /\ last'.in.kind = "recent:track"
              => /\ IsTrack(lastPlayedTrack')
                 /\ ~lastPlayedTrack'.isPlaying
         /\ last'.branch \in {"catchStale", "errorStale"}
              => /\ IsTrack(lastPlayedTrack)
                 /\ lastPlayedTrack' = lastPlayedTrack
                 /\ last'.result.kind = "track"
                 /\ last'.result.title = lastPlayedTrack.title
                 /\ last'.result.artist = lastPlayedTrack.artist
                 /\ ~last'.result.isPlaying]_vars

\* the last played track is stored as playing, and a call whose
\* recently-played fetch failed has returned it as not playing
C14_Witness ==
  /\ IsTrack(lastPlayedTrack) /\ lastPlayedTrack.isPlaying
  /\ last.branch = "catchStale" /\ last.in.kind = "recent:neterr"
  /\ last.result = [lastPlayedTrack EXCEPT !.isPlaying = FALSE]

\* the answers from which the code resolves a track
DefinitiveAnswers == {"live:track", "recent:track"}

\* C15: lastPlayedTrack, once a track, stays a track; it changes only in
\* the step in which a call completes on a 200 currently-playing answer or,
\* after a 204, on a recently-played answer with an item, and is then the
\* value the call returns; such a step always sets it.  Cache hits, calls
\* that start or move on, and calls that complete in any other way (error
\* status, failed or empty fallback, exception) leave it unchanged.
C15_LastPlayedPersists ==
  [][/\ IsTrack(lastPlayedTrack) => IsTrack(lastPlayedTrack')
     /\ lastPlayedTrack' # lastPlayedTrack
          => \E c \in Calls :
               /\ Completes(c) /\ last'.in.kind \in DefinitiveAnswers
               /\ last'.live = 1
               /\ last'.in.kind = "recent:track" => last'.recent = 1
     /\ HitStep => lastPlayedTrack' = lastPlayedTrack
     /\ \A c \in Calls :
          /\ (Completes(c) /\ last'.in.kind \in DefinitiveAnswers)
               => (last'.outcome = "value" /\ lastPlayedTrack' = last'.result)
          /\ (Completes(c) /\ last'.in.kind \notin DefinitiveAnswers)
               => lastPlayedTrack' = lastPlayedTrack
     /\ (\A c \in Calls : ~Completes(c)) => lastPlayedTrack' = lastPlayedTrack]_vars

\* the last played track has outlived a call that threw on a network
\* error of its currently-playing fetch, while the cache holds unavailable
C15_Witness ==
  /\ IsTrack(lastPlayedTrack)
  /\ last.outcome = "error" /\ last.branch = "liveThrow"
  /\ nowPlayingCache.payload = FalsePayload

\* the answers that end a call at its currently-playing fetch, and those of
\* the recently-played fetch
LiveEndings == {"live:neterr", "live:error", "live:malformed", "live:track"}
RecentAnswers ==
  {"recent:neterr", "recent:notok", "recent:badjson", "recent:empty",
   "recent:noartist", "recent:track"}
FailedExchanges == {"token:neterr", "token:badjson"}

\* C16 (as stated): a completed call whose currently-playing fetch came
\* back with an error (an error status or a network error) or with a 204
\* has requested recently-played; it has requested each endpoint at most
\* once, and recently-played only after currently-playing.
C16_FallbackOnEmptyOrError ==
  /\ last.in.kind \in {"live:error", "live:neterr"} => last.recent = 1
  /\ last.branch \in {"catchStale", "catchUnavailable", "recentUnavailable", "recent"}
       => last.recent = 1
  /\ last.live <= 1 /\ last.recent <= 1
  /\ last.recent = 1 => last.live = 1

\* C16 (amended): a call requests recently-played exactly after a 204 of
\* its currently-playing fetch, unless the token exchange it then needs
\* fails, which ends the call in the catch block without the request.  A
\* call that ends at its currently-playing fetch (error status, network
\* error, a body without a track, a track) has not requested
\* recently-played.  Each endpoint is requested at most once per call, and
\* recently-played only once currently-playing has answered.
C16_FallbackOnlyAfter204 ==
  /\ [](/\ \A c \in Calls :
             /\ calls[c].live <= 1 /\ calls[c].recent <= 1
             /\ calls[c].pc \in {"token_recent", "recent"}
                  => (calls[c].status = 204 /\ calls[c].live = 1)
             /\ calls[c].recent = 1 <=> calls[c].pc = "recent"
             /\ calls[c].live = 1 <=> calls[c].pc \in {"live", "token_recent", "recent"}
        /\ last.live <= 1 /\ last.recent <= 1
        /\ last.recent = 1 => last.live = 1
        /\ last.recent = 1 <=> last.in.kind \in RecentAnswers
        /\ last.in.kind \in LiveEndings => (last.live = 1 /\ last.recent = 0)
        /\ (last.in.kind \in FailedExchanges /\ last.live = 1)
             => (last.recent = 0 /\ last.branch \in {"catchStale", "catchUnavailable"}))
  /\ [][\A c \in Calls :
          /\ (calls[c].pc = "live" /\ calls'[c].pc # "live")
               => IF calls'[c].pc = "idle"
                  THEN last'.in.kind \in LiveEndings
                  ELSE /\ calls'[c].status = 204
                       /\ calls'[c].pc \in {"token_recent", "recent"}
                       /\ calls'[c].pc = "token_recent" <=> ~TokenValid(tokenCache, now)
          /\ (calls[c].pc = "token_recent" /\ calls'[c].pc # "token_recent")
               => IF calls'[c].pc = "idle"
                  THEN last'.in.kind \in FailedExchanges
                  ELSE calls'[c].pc = "recent"]_vars

\* a call waits for its recently-played fetch, issued after a second token
\* exchange, with a last played track stored
C16_Witness ==
  \E c \in Calls :
    /\ calls[c].pc = "recent" /\ calls[c].status = 204
    /\ calls[c].live = 1 /\ calls[c].recent = 1 /\ calls[c].exch = 2
    /\ IsTrack(lastPlayedTrack)

\* the (access_token, expires_at) pair of the exchange response r received
\* at time t
TokenPairOf(r, t) ==
  [access_token |-> r.access_token,
   expires_at |-> IF r.expires_in = <<>> THEN NaN
                  ELSE Num(t + r.expires_in[1] * 1000 - TOKEN_EXPIRY_BUFFER)]

\* the exchange responses with a JSON body, and the past readings of the clock
ParsedTokenResponses == {r \in TokenResponses : r.kind \in {"ok", "error"}}
PastClock == {t \in ClockValues : StartTime <= t /\ t <= now}

\* C17: under every interleaving of the calls, tokenCache is the empty
\* cache or the pair of one exchange response, and nowPlayingCache is the
\* empty cache or a value with the expiry of one write.  A step changes
\* tokenCache only as the continuation of one call's exchange, to the pair
\* of that response, and nowPlayingCache only as the completion of one
\* call, to the value that call returns expiring a TTL later; each such
\* write replaces what the cache held, whichever call wrote before.
C17_AtomicLastWriterWins ==
  /\ [](/\ \/ tokenCache = [access_token |-> NullToken, expires_at |-> Num(0)]
           \/ \E r \in ParsedTokenResponses, t \in PastClock :
                tokenCache = TokenPairOf(r, t)
        /\ \/ nowPlayingCache = [payload |-> NullPayload, expires_at |-> 0]
           \/ /\ nowPlayingCache.payload.kind \in {"track", "false"}
              /\ \E t \in PastClock : nowPlayingCache.expires_at = t + NOW_PLAYING_TTL)
  /\ [][/\ tokenCache' # tokenCache
             => \E c \in Calls :
                  /\ calls[c].pc \in {"token_live", "token_recent"}
                  /\ calls'[c].pc \in {"live", "recent"}
        /\ \A c \in Calls :
             (calls[c].pc \in {"token_live", "token_recent"}
                /\ calls'[c].pc \in {"live", "recent"})
               => \E r \in ParsedTokenResponses : tokenCache' = TokenPairOf(r, now)
        /\ nowPlayingCache' # nowPlayingCache
             => \E c \in Calls : Completes(c) /\ last'.wrote
        /\ \A c \in Calls :
             (Completes(c) /\ last'.wrote)
               => nowPlayingCache' = [payload |-> last'.result,
                                      expires_at |-> now + NOW_PLAYING_TTL]]_vars

\* two calls have each posted a token exchange and passed a 204: one has
\* completed and written both caches last, the other is still in flight
C17_Witness ==
  \E c \in Calls :
    /\ calls[c].pc = "recent" /\ calls[c].exch >= 1
    /\ last.wrote /\ last.exch = 2 /\ IsTrack(last.result)
    /\ nowPlayingCache = [payload |-> last.result, expires_at |-> now + NOW_PLAYING_TTL]
    /\ \E r \in ParsedTokenResponses : tokenCache = TokenPairOf(r, now)

\* call c passes getAccessToken with the cached token: it goes from the
\* start, or from a 204, straight to its fetch
ServedFromCache(c) ==
  \/ calls[c].pc = "idle" /\ calls'[c].pc = "live"
  \/ calls[c].pc = "live" /\ calls'[c].pc = "recent"

\* call c reaches getAccessToken in this step
ReachesGetAccessToken(c) ==
  \/ Begins(c)
  \/ calls[c].pc = "live" /\ calls'[c].pc \in {"token_recent", "recent"}

\* the grants (response, time of receipt) of which tokenCache is the pair
Grants ==
  {g \in {r \in TokenResponses : r.kind = "ok"} \X PastClock :
     tokenCache = TokenPairOf(g[1], g[2])}

\* C18: an exchange answered with a grant of expires_in seconds stores
\* that token with expires_at = now + expires_in * 1000 - 60000.  Whenever
\* getAccessToken returns the cached token, the token is that of a grant,
\* and counted from the receipt of the grant more than 60000 ms of its
\* expires_in are left; a token granted with expires_in <= 60 is never
\* returned from the cache: the call that reaches getAccessToken posts a
\* new exchange.
C18_BufferLeavesMargin ==
  [][\A c \in Calls :
       /\ (calls[c].pc \in {"token_live", "token_recent"} /\ calls'[c].pc # calls[c].pc)
            => \A r \in TokenResponses :
                 (r.kind = "ok" /\ TokenResponse(c, r))
                   => tokenCache' = [access_token |-> r.access_token,
                                     expires_at |->
                                       Num(now + r.expires_in[1] * 1000 - 60000)]
       /\ ServedFromCache(c)
            => /\ tokenCache.access_token \in Tokens
               /\ tokenCache' = tokenCache
               /\ Grants # {}
               /\ \A g \in Grants :
                    /\ g[2] + g[1].expires_in[1] * 1000 - now > 60000
                    /\ g[1].expires_in[1] > 60
       /\ (ReachesGetAccessToken(c) /\ \E g \in Grants : g[1].expires_in[1] <= 60)
            => calls'[c].pc \in {"token_live", "token_recent"}]_vars

\* a call has passed getAccessToken twice with the cached token, granted
\* for 65 seconds by another call's exchange, and waits for its
\* recently-played fetch
C18_Witness ==
  \E c \in Calls :
    /\ calls[c].pc = "recent" /\ calls[c].exch = 0
    /\ tokenCache.access_token \in Tokens
    /\ tokenCache.expires_at = Num(now + 65 * 1000 - 60000)

\* C19: a call returns a value with isPlaying = true only from a 200
\* currently-playing answer of its own that reported is_playing = true, or
\* from nowPlayingCache before its expiry, and nowPlayingCache comes to hold
\* a playing value only by the write of a call that returns it from such
\* an answer.  The recently-played fallback and the lastPlayedTrack
\* fallbacks (after a 204, after an error status) return isPlaying = false.
C19_PlayingOnlyFromLive ==
  /\ [](/\ (last.outcome = "value" /\ last.result.isPlaying)
             => /\ IsTrack(last.result)
                /\ \/ /\ last.branch = "live" /\ last.in.kind = "live:track"
                      /\ last.in.is_playing /\ last.live = 1 /\ last.recent = 0
                   \/ last.branch = "hit"
        /\ last.branch \in {"recent", "catchStale", "errorStale", "catchUnavailable",
                              "errorUnavailable", "recentUnavailable"}
             => (last.outcome = "value" /\ ~last.result.isPlaying)
        /\ last.recent = 1 => ~last.result.isPlaying)
  /\ [][/\ HitStep
             => /\ now < nowPlayingCache.expires_at
                /\ last'.result = nowPlayingCache.payload
        /\ (nowPlayingCache' # nowPlayingCache /\ nowPlayingCache'.payload.isPlaying)
             => \E c \in Calls :
                  /\ Completes(c) /\ last'.branch = "live"
                  /\ last'.in.kind = "live:track" /\ last'.in.is_playing
                  /\ last'.result = nowPlayingCache'.payload]_vars

\* a playing track has been returned from the cache some time after the
\* call that fetched it, while the last played track is stored as playing
C19_Witness ==
  /\ last.branch = "hit" /\ IsTrack(last.result) /\ last.result.isPlaying
  /\ now > nowPlayingCache.expires_at - NOW_PLAYING_TTL
  /\ lastPlayedTrack.isPlaying

\* C20: in every reachable state, whenever nowPlayingCache holds a track,
\* lastPlayedTrack is that track, with the same title, artist and
\* isPlaying: a step that sets lastPlayedTrack caches the same value, and
\* a step that caches a track sets lastPlayedTrack to it.
C20_CachedTrackIsLastPlayed ==
  /\ [](IsTrack(nowPlayingCache.payload)
          => /\ IsTrack(lastPlayedTrack)
             /\ lastPlayedTrack.title = nowPlayingCache.payload.title
             /\ lastPlayedTrack.artist = nowPlayingCache.payload.artist
             /\ lastPlayedTrack.isPlaying = nowPlayingCache.payload.isPlaying)
  /\ [][/\ lastPlayedTrack' # lastPlayedTrack
             => nowPlayingCache' = [payload |-> lastPlayedTrack',
                                    expires_at |-> now + NOW_PLAYING_TTL]
        /\ (nowPlayingCache' # nowPlayingCache /\ IsTrack(nowPlayingCache'.payload))
             => lastPlayedTrack' = nowPlayingCache'.payload]_vars

\* with two calls interleaved, the one that completed last has replaced
\* the cached track and the last played track by another track, while the
\* other call still waits for its currently-playing fetch
C20_Witness ==
  \E c \in Calls :
    /\ calls[c].pc = "live" /\ calls[c].startAt < now
    /\ last.wrote /\ IsTrack(last.result) /\ last.result.isPlaying
    /\ last.startAt = now
    /\ nowPlayingCache.payload = last.result
    /\ lastPlayedTrack = last.result

====
